---------------------------- MODULE Spec2Model ----------------------------
(* Model of bot.py: the Telegram code-generation bot's request pipeline    *)
(* (parse -> resolve base -> compose -> model call -> extract -> commit -> *)
(* diff), its per-chat session state and its on-disk version store.        *)
(*                                                                         *)
(* Text is modelled as a sequence of lines and a line as a sequence of     *)
(* tokens (strings).  A token is an atom of the text that the program's    *)
(* regular expressions and path handling never look inside: a word, an     *)
(* extension such as ".py", or one of the separators "-", "/", "..".       *)
EXTENDS Integers, Sequences, FiniteSets, TLC

VARIABLES
    disk,       \* the files under OUT_DIR: path -> content
    chat_data,  \* ctx.chat_data of each chat: model and active_file
    now,        \* the clock, in seconds
    cur,        \* the update being handled: its position and its locals
    outbox,     \* what the handler of the update has sent to the user so far
    nupd,       \* number of updates taken so far
    dirty,      \* history: latest- paths whose commit began and did not end
    prev        \* history: per chat, the last generation if it inferred its file

vars == <<disk, chat_data, now, cur, outbox, nupd, dirty, prev>>

-----------------------------------------------------------------------------
(* Bounds of the model.                                                    *)

\* the clock runs over the seconds 0 .. MaxTime of one day
MaxTime == 1
\* number of updates (messages and commands) the dispatcher takes
MaxUpdates == 2

\* chat ids of the conversations
Chats == {1, 2}

-----------------------------------------------------------------------------
(* Token classes: what the character classes of the regular expressions    *)
(* and of pathlib make of each token of the alphabet.                      *)

\* tokens made of [A-Za-z0-9_] only
AlnumAtoms == {"a", "b", "x", "2", "hello", "code", "app", "python", "Python",
               "javascript", "JavaScript", "text", "Add", "goodbye", "fix"}

\* a dot followed by letters: a file extension
ExtAtoms == {".py", ".js", ".ts", ".java", ".cpp", ".c", ".cs", ".php", ".rb",
             ".go", ".rs", ".html", ".css", ".sql", ".sh", ".yml", ".yaml",
             ".json", ".xml", ".md", ".txt"}

\* str.lower() on a token
Lower(t) == CASE t = "Python" -> "python"
              [] t = "JavaScript" -> "javascript"
              [] OTHER -> t

\* the tokens of the character class [A-Za-z0-9._/\-] of FILENAME_RE
SafeTok(t) == t \in AlnumAtoms \cup ExtAtoms \cup {"-", "/", "..", "."}

\* optional values: None and a present value
None == <<>>
Some(v) == <<v>>

-----------------------------------------------------------------------------
(* str.strip() on a text: leading and trailing blank lines go.             *)

RECURSIVE StripLeft(_)
StripLeft(text) ==
    IF text = <<>> THEN text
    ELSE IF Head(text) = <<>> THEN StripLeft(Tail(text)) ELSE text

RECURSIVE StripRight(_)
StripRight(text) ==
    IF text = <<>> THEN text
    ELSE IF text[Len(text)] = <<>> THEN StripRight(SubSeq(text, 1, Len(text) - 1))
    ELSE text

Strip(text) == StripRight(StripLeft(text))

-----------------------------------------------------------------------------
(* FENCE_RE: three backticks, an optional tag [a-zA-Z0-9_+\-]*, a newline, *)
(* the lazily matched group, three backticks.                              *)

\* the token of three backticks
Fence == "<fence>"

\* a line that is a fence or a fence and a tag, and nothing else
IsFenceOpen(line) ==
    /\ Len(line) \in {1, 2}
    /\ line[1] = Fence
    /\ Len(line) = 2 => line[2] \in AlnumAtoms

\* a line that begins with a fence
HasFence(line) == Len(line) >= 1 /\ line[1] = Fence

\* FENCE_RE.search: the first opening line that a later fence closes, and the
\* first such closing line (the match is lazy); <<>> when there is no match
FenceSearch(text) ==
    LET opens == {i \in 1..Len(text) :
                     /\ IsFenceOpen(text[i])
                     /\ \E j \in (i + 1)..Len(text) : HasFence(text[j])}
    IN IF opens = {} THEN None
       ELSE LET i == CHOOSE k \in opens : \A m \in opens : k <= m
                j == CHOOSE k \in (i + 1)..Len(text) :
                        /\ HasFence(text[k])
                        /\ \A m \in (i + 1)..(k - 1) : ~HasFence(text[m])
            IN Some([start |-> i, end |-> j])

\* m.group(1): the lines between the opening and the closing fence
FenceGroup(text, m) == SubSeq(text, m.start + 1, m.end - 1)

\* text[:m.start()] + text[m.end():]: the lines before the opening fence, what
\* is left of the closing line after its fence, and the lines after it
FenceRemoved(text, m) ==
    SubSeq(text, 1, m.start - 1) \o <<Tail(text[m.end])>>
        \o SubSeq(text, m.end + 1, Len(text))

extract_code_block(text) ==
    LET m == FenceSearch(text)
    IN Strip(IF m /= None THEN FenceGroup(text, m[1]) ELSE text)

parse_prompt(text) ==
    LET m == FenceSearch(text)
    IN IF m = None THEN [prompt |-> Strip(text), code |-> None]
       ELSE LET code == Strip(FenceGroup(text, m[1]))
            IN [prompt |-> Strip(FenceRemoved(text, m[1])),
                code |-> IF code /= <<>> THEN Some(code) ELSE None]

-----------------------------------------------------------------------------
(* pathlib                                                                 *)

\* the components of a path string: split at "/", empty and "." parts dropped
RECURSIVE SplitPath(_, _)
SplitPath(toks, part) ==
    LET keep == IF part = <<>> \/ part = <<".">> THEN <<>> ELSE <<part>>
    IN IF toks = <<>> THEN keep
       ELSE IF Head(toks) = "/" THEN keep \o SplitPath(Tail(toks), <<>>)
       ELSE SplitPath(Tail(toks), Append(part, Head(toks)))

\* Path(filename).name: the last component ("" when there is none)
PathName(filename) ==
    LET parts == SplitPath(filename, <<>>)
    IN IF parts = <<>> THEN <<>> ELSE parts[Len(parts)]

\* Path(filename).suffix of the last component ("" when there is none)
PathSuffix(filename) ==
    LET name == PathName(filename)
    IN IF Len(name) >= 2 /\ name[Len(name)] \in ExtAtoms
       THEN name[Len(name)] ELSE ""

\* the file the operating system opens for directory / entry: the entry's
\* components are walked from the directory, ".." leaving a directory
RECURSIVE Walk(_, _)
Walk(at, parts) ==
    IF parts = <<>> THEN at
    ELSE IF Head(parts) = <<"..">>
         THEN Walk(IF at = <<>> THEN at ELSE SubSeq(at, 1, Len(at) - 1), Tail(parts))
         ELSE Walk(Append(at, Head(parts)), Tail(parts))

JoinPath(dir, entry) == Walk(dir, SplitPath(entry, <<>>))

\* Path.with_suffix(suffix) on a file name
WithSuffix(name, suffix) ==
    IF Len(name) >= 2 /\ name[Len(name)] \in ExtAtoms
    THEN SubSeq(name, 1, Len(name) - 1) \o <<suffix>>
    ELSE name \o <<suffix>>

\* name.split("-", 1)[-1]: what follows the first "-", or all of it
SplitDashLast(name) ==
    LET dashes == {i \in 1..Len(name) : name[i] = "-"}
    IN IF dashes = {} THEN name
       ELSE LET i == CHOOSE k \in dashes : \A m \in dashes : k <= m
            IN SubSeq(name, i + 1, Len(name))

-----------------------------------------------------------------------------
(* Request parsing.                                                        *)

\* FILENAME_RE.match(line): "filename:" followed by one or more safe tokens
FilenameMatch(line) ==
    /\ Len(line) >= 2
    /\ Lower(line[1]) = "filename:"
    /\ \A i \in 2..Len(line) : SafeTok(line[i])

\* LANG_HINT_RE.match(line): "language:" or "lang:" followed by one tag
LangHintMatch(line) ==
    /\ Len(line) = 2
    /\ Lower(line[1]) \in {"language:", "lang:"}
    /\ line[2] \in AlnumAtoms

\* "javascript" in prompt.lower()
MentionsJavascript(prompt) ==
    \E i \in 1..Len(prompt) : \E j \in 1..Len(prompt[i]) :
        Lower(prompt[i][j]) = "javascript"

pick_filename_and_lang(prompt) ==
    LET filename == IF prompt /= <<>> /\ FilenameMatch(prompt[1])
                    THEN Tail(prompt[1]) ELSE <<"code", ".py">>
        hints == {i \in 1..Len(prompt) : i <= 3 /\ LangHintMatch(prompt[i])}
        language == IF hints = {} THEN "python"
                    ELSE Lower(prompt[CHOOSE k \in hints : \A m \in hints : k <= m][2])
    IN IF /\ language = "python"
          /\ MentionsJavascript(prompt)
          /\ filename[Len(filename)] = ".py"
       THEN [filename |-> <<"app", ".js">>, language |-> "javascript"]
       ELSE [filename |-> filename, language |-> language]

detect_language_from_filename(filename) ==
    LET ext == PathSuffix(filename)
    IN CASE ext = ".py" -> "python"
         [] ext = ".js" -> "javascript"
         [] ext = ".ts" -> "typescript"
         [] ext = ".java" -> "java"
         [] ext = ".cpp" -> "cpp"
         [] ext = ".c" -> "c"
         [] ext = ".cs" -> "csharp"
         [] ext = ".php" -> "php"
         [] ext = ".rb" -> "ruby"
         [] ext = ".go" -> "go"
         [] ext = ".rs" -> "rust"
         [] ext = ".html" -> "html"
         [] ext = ".css" -> "css"
         [] ext = ".sql" -> "sql"
         [] ext = ".sh" -> "bash"
         [] ext = ".yml" -> "yaml"
         [] ext = ".yaml" -> "yaml"
         [] ext = ".json" -> "json"
         [] ext = ".xml" -> "xml"
         [] OTHER -> "text"

\* ext_hint = "." + (suffix without its dot, or "txt")
ExtHint(filename) ==
    IF PathSuffix(filename) = "" THEN ".txt" ELSE PathSuffix(filename)

-----------------------------------------------------------------------------
(* The version store's paths, relative to OUT_DIR: a path is the sequence  *)
(* of its components, a component the sequence of its tokens.              *)

chat_dir(chat_id) == <<<<ToString(chat_id)>>>>

\* latest_path without Path(filename).name
latest_path_unnamed(chat_id, filename) ==
    JoinPath(chat_dir(chat_id), <<"latest", "-">> \o filename)

latest_path(chat_id, filename) ==
    JoinPath(chat_dir(chat_id), <<"latest", "-">> \o PathName(filename))

\* time.strftime("%Y%m%d-%H%M%S") at second t of the day
Stamp(t) == <<"ymd", "-", ToString(t)>>

new_version_path(chat_id, filename, t) ==
    JoinPath(chat_dir(chat_id), Stamp(t) \o <<"-">> \o PathName(filename))

\* vpath.with_suffix(".combo.md")
ComboPath(vpath) ==
    SubSeq(vpath, 1, Len(vpath) - 1) \o <<WithSuffix(vpath[Len(vpath)], ".combo.md")>>

\* vpath.name.split("-", 1)[-1]
DisplayName(vpath) == SplitDashLast(vpath[Len(vpath)])

-----------------------------------------------------------------------------
(* Prompt composer.                                                        *)

BeginMarker == "<<BEGIN_BASE_CODE"
EndMarker == "<<END_BASE_CODE>>"

Rules == << <<"Rules:">>,
            <<"- Return ONLY code in one fenced block.">>,
            <<"- Deterministic, self-contained; no external secrets.">>,
            <<"- If details are missing, choose sensible production defaults.">>,
            <<>> >>

\* truth value of an Optional[str]: None and "" are false
Truthy(opt) == opt /= None /\ opt[1] /= <<>>

\* build_composite_prompt with the end marker left out
build_composite_prompt_unclosed(user_prompt, language, filename, base_code) ==
    IF ~Truthy(base_code)
    THEN << <<"Language:", language>>, <<"Task: Generate">> >> \o Rules
           \o << <<"Specification:">> >> \o user_prompt
    ELSE << <<"Language:", language>>, <<"Task: Update">> >> \o Rules
           \o << <<"Specification:">> >> \o user_prompt
           \o << <<>>, <<"Apply the changes to the code below.">>, <<>> >>
           \o << <<BeginMarker, "filename=">> \o PathName(filename)
                    \o <<"version=latest>>">> >>
           \o << <<Fence, language>> >>
           \o base_code[1]
           \o << <<Fence>> >>

build_composite_prompt(user_prompt, language, filename, base_code) ==
    IF ~Truthy(base_code)
    THEN << <<"Language:", language>>, <<"Task: Generate">> >> \o Rules
           \o << <<"Specification:">> >> \o user_prompt
    ELSE << <<"Language:", language>>, <<"Task: Update">> >> \o Rules
           \o << <<"Specification:">> >> \o user_prompt
           \o << <<>>, <<"Apply the changes to the code below.">>, <<>> >>
           \o << <<BeginMarker, "filename=">> \o PathName(filename)
                    \o <<"version=latest>>">> >>
           \o << <<Fence, language>> >>
           \o base_code[1]
           \o << <<Fence>>, <<EndMarker>> >>

-----------------------------------------------------------------------------
(* Diff reporter.                                                          *)

\* number of leading lines two texts share
RECURSIVE CommonPrefix(_, _)
CommonPrefix(a, b) ==
    IF a = <<>> \/ b = <<>> \/ Head(a) /= Head(b) THEN 0
    ELSE 1 + CommonPrefix(Tail(a), Tail(b))

Reverse(s) == [i \in 1..Len(s) |-> s[Len(s) + 1 - i]]

\* the lines of a text, each with a one-character tag in front
Tagged(tag, text) == [i \in 1..Len(text) |-> <<tag>> \o text[i]]

\* difflib.unified_diff(before.splitlines(), after.splitlines(), ...), joined
\* by newlines: nothing for equal texts, else the two file labels, one hunk
\* header and the hunk (texts this short fit in one hunk with its context)
make_diff(before, after, ext_hint) ==
    IF before = after THEN <<>>
    ELSE LET p == CommonPrefix(before, after)
             b1 == SubSeq(before, p + 1, Len(before))
             a1 == SubSeq(after, p + 1, Len(after))
             q == CommonPrefix(Reverse(b1), Reverse(a1))
         IN << <<"---", "before", ext_hint>>, <<"+++", "after", ext_hint>>, <<"@@">> >>
              \o Tagged(" ", SubSeq(before, 1, p))
              \o Tagged("-", SubSeq(b1, 1, Len(b1) - q))
              \o Tagged("+", SubSeq(a1, 1, Len(a1) - q))
              \o Tagged(" ", SubSeq(b1, Len(b1) - q + 1, Len(b1)))

\* a line of BigLineLen characters
BigLine == "BIG"
BigLineLen == 3600

\* len() of a token, a line and a text joined by newlines
TokLen(t) == IF t = BigLine THEN BigLineLen ELSE Len(t)

RECURSIVE LineLen(_)
LineLen(line) == IF line = <<>> THEN 0 ELSE TokLen(Head(line)) + LineLen(Tail(line))

RECURSIVE TextLen(_)
TextLen(text) ==
    IF text = <<>> THEN 0
    ELSE IF Len(text) = 1 THEN LineLen(text[1])
    ELSE LineLen(Head(text)) + 1 + TextLen(Tail(text))

\* the inline diff is sent when len(udiff) <= 3500
DiffLimit == 3500

-----------------------------------------------------------------------------
(* Model call.                                                             *)

\* str(resp): the printed response object
ReprResp == << <<"Response(output_text='')">> >>

\* call_llm without its check of the empty artifact
call_llm_unchecked(resp) ==
    IF resp = None THEN [raised |-> TRUE, err |-> "llm", code |-> <<>>]
    ELSE [raised |-> FALSE, err |-> "",
          code |-> extract_code_block(IF resp[1] /= <<>> THEN resp[1] ELSE ReprResp)]

\* call_llm on the outcome of CLIENT.responses.create: None when the client
\* raised (API error, timeout), else the response's output_text
call_llm(resp) ==
    IF resp = None THEN [raised |-> TRUE, err |-> "llm", code |-> <<>>]
    ELSE LET text == IF resp[1] /= <<>> THEN resp[1] ELSE ReprResp
             code == extract_code_block(text)
         IN IF Strip(code) = <<>>
            THEN [raised |-> TRUE, err |-> "empty", code |-> <<>>]
            ELSE [raised |-> FALSE, err |-> "", code |-> code]

-----------------------------------------------------------------------------
(* Files.                                                                  *)

EmptyDisk == [p \in {} |-> <<>>]

\* open(path, "w"): the file is created, or truncated when it exists
OpenW(d, path) == (path :> <<>>) @@ d

\* the write of the whole text to the open file
WriteAll(d, path, text) == (path :> text) @@ d

\* what a write that fails part-way leaves in the file
Prefixes(text) == {SubSeq(text, 1, k) : k \in 0..(Len(text) - 1)}

\* resolve_base with latest- taken before the embedded code
resolve_base_latest_first(injected_code, lp, d, read_ok) ==
    IF lp \in DOMAIN d /\ read_ok THEN Some(d[lp]) ELSE injected_code

\* base_code of process_any_prompt: the embedded code, else the content of
\* latest- when it exists and can be read, else None
resolve_base(injected_code, lp, d, read_ok) ==
    IF injected_code = None /\ lp \in DOMAIN d
    THEN IF read_ok THEN Some(d[lp]) ELSE None
    ELSE injected_code

\* the combined file of the instruction and the last generated code
ComboContent(prompt, code) ==
    << <<"# Prompt:">> >> \o prompt \o << <<>>, <<"# Last generated code:">>, <<>>, <<Fence>> >>
        \o code \o << <<Fence>> >>

-----------------------------------------------------------------------------
(* Inputs.  Each instruction is given with what its sender put into it:    *)
(* the embedded code (or None) and the filename line (or None).            *)

Instructions ==
    { [raw |-> << <<"Add", "goodbye">> >>,
       embedded |-> None, named |-> None],
      [raw |-> << <<"filename:", "a", "/", "..", "/", "..", "/", "2", "/", "x", ".py">>,
                  <<"language:", "Python">>, <<"fix">> >>,
       embedded |-> None, named |-> Some(<<"x", ".py">>)],
      [raw |-> << <<"fix", EndMarker>>, <<Fence, "python">>, <<BeginMarker>>, <<Fence>> >>,
       embedded |-> Some(<< <<BeginMarker>> >>), named |-> None],
      [raw |-> << <<Fence>>, <<"a">>, <<Fence>> >>,
       embedded |-> Some(<< <<"a">> >>), named |-> None],
      [raw |-> << <<>> >>,
       embedded |-> None, named |-> None] }

\* The outcomes of the model call: output_text of the response (None for a
\* call that fails), given with the artifact the model put into it.
Responses ==
    { [text |-> None, artifact |-> <<>>],
      [text |-> Some(<< <<"sure">>, <<Fence, "python">>, <<"a">>, <<>>, <<Fence>> >>),
       artifact |-> << <<"a">> >>],
      [text |-> Some(<< <<BigLine>> >>),
       artifact |-> << <<BigLine>> >>],
      [text |-> Some(<< <<Fence>>, <<>>, <<Fence>> >>),
       artifact |-> <<>>] }

NoResponse == [text |-> None, artifact |-> <<>>]

\* arguments of /create
CreateArgs == { <<>>, <<"x", ".py">>, <<BigLine>> }

AVAILABLE_MODELS == {"gpt-4", "gpt-4-turbo", "gpt-5", "claude-3-sonnet", "claude-3-opus"}
DEFAULT_MODEL == "gpt-5"

\* arguments of /model
ModelArgs == { "", "gpt-4", "gpt-6" }

-----------------------------------------------------------------------------
(* State.                                                                  *)

NoSession == [model |-> None, active_file |-> None]

Idle == [pc |-> "idle", kind |-> "", chat |-> 0, instr |-> <<>>, embedded |-> None,
         named |-> None,
         model |-> "", active_file |-> None, prompt |-> <<>>, filename |-> <<>>,
         language |-> "", read_ok |-> TRUE, base |-> None, composite |-> <<>>,
         resp |-> NoResponse, called |-> FALSE, code |-> <<>>, vpath |-> <<>>, lp |-> <<>>,
         udiff |-> None, err |-> "", disk0 |-> EmptyDisk, data0 |-> NoSession]

Init ==
    /\ disk = EmptyDisk
    /\ chat_data = [c \in Chats |-> NoSession]
    /\ now = 0
    /\ cur = Idle
    /\ outbox = <<>>
    /\ nupd = 0
    /\ dirty = {}
    /\ prev = [c \in Chats |-> None]

\* the dispatcher with concurrent updates: an update is taken at any time
CanDispatchConcurrent == TRUE

\* Application.builder().token(...).build() leaves concurrent_updates off: the
\* next update is handed to its handler when the handler of the last returned
CanDispatch == cur.pc = "idle"

\* a request between reading its session state and the end of its commit
InFlight == cur.pc \in {"typing", "llm", "commit", "vdone"}

\* an exception leaves process_any_prompt, whose locals are gone, and reaches
\* the handler's except branch: one message to the user, and it returns
Failed(rec, err) ==
    /\ cur' = [Idle EXCEPT !.pc = "done", !.err = err, !.kind = rec.kind,
                           !.chat = rec.chat, !.resp = rec.resp, !.called = rec.called,
                           !.active_file = rec.active_file,
                           !.disk0 = rec.disk0, !.data0 = rec.data0]
    /\ outbox' = Append(outbox, [kind |-> "error", body |-> << <<err>> >>])

-----------------------------------------------------------------------------
(* handle_text and handle_document up to the call of process_any_prompt.   *)

Start(kind, c, ins, body) ==
    [Idle EXCEPT !.pc = "typing", !.kind = kind, !.chat = c, !.instr = body,
                 !.embedded = ins.embedded, !.named = ins.named,
                 !.model = IF chat_data[c].model = None THEN DEFAULT_MODEL
                           ELSE chat_data[c].model[1],
                 !.active_file = chat_data[c].active_file,
                 !.disk0 = disk, !.data0 = chat_data[c]]

Rejected(kind, c, why) ==
    /\ cur' = [Idle EXCEPT !.pc = "done", !.kind = kind, !.chat = c, !.err = why]
    /\ outbox' = <<[kind |-> "error", body |-> << <<why>> >>]>>

HandleText(c, ins) ==
    /\ CanDispatch
    /\ nupd < MaxUpdates
    /\ nupd' = nupd + 1
    /\ IF Strip(ins.raw) = <<>>
       THEN Rejected("text", c, "no prompt")
       ELSE /\ cur' = Start("text", c, ins, Strip(ins.raw))
            /\ outbox' = <<>>
    /\ UNCHANGED <<disk, chat_data, now, dirty, prev>>

HandleDocument(c, ins, is_txt) ==
    /\ CanDispatch
    /\ nupd < MaxUpdates
    /\ nupd' = nupd + 1
    /\ IF ~is_txt THEN Rejected("document", c, "not .txt")
       ELSE IF Strip(ins.raw) = <<>> THEN Rejected("document", c, "empty file")
       ELSE /\ cur' = Start("document", c, ins, ins.raw)
            /\ outbox' = <<>>
    /\ UNCHANGED <<disk, chat_data, now, dirty, prev>>

-----------------------------------------------------------------------------
(* process_any_prompt.                                                     *)

\* parse, choose the file and the language, resolve the base, compose
Resolve ==
    /\ cur.pc = "typing"
    /\ LET pp == parse_prompt(cur.instr)
           fl == IF Truthy(cur.active_file)
                 THEN [filename |-> cur.active_file[1],
                       language |-> detect_language_from_filename(cur.active_file[1])]
                 ELSE pick_filename_and_lang(pp.prompt)
           lp == latest_path(cur.chat, fl.filename)
       IN IF pp.prompt = <<>>
          THEN Failed(cur, "prompt")
          ELSE \E read_ok \in (IF pp.code = None /\ lp \in DOMAIN disk
                               THEN BOOLEAN ELSE {TRUE}) :
               LET base == resolve_base(pp.code, lp, disk, read_ok)
               IN /\ cur' = [cur EXCEPT
                        !.pc = "llm", !.prompt = pp.prompt,
                        !.filename = fl.filename, !.language = fl.language,
                        !.lp = lp, !.read_ok = read_ok, !.base = base,
                        !.composite = build_composite_prompt(pp.prompt, fl.language,
                                                             fl.filename, base)]
                  /\ outbox' = outbox
    /\ UNCHANGED <<disk, chat_data, now, nupd, dirty, prev>>

CallLLM ==
    /\ cur.pc = "llm"
    /\ \E resp \in Responses :
         LET r == call_llm(resp.text)
             rec == [cur EXCEPT !.resp = resp, !.called = TRUE]
         IN IF r.raised THEN Failed(rec, r.err)
            ELSE /\ cur' = [rec EXCEPT !.pc = "commit", !.code = r.code]
                 /\ outbox' = outbox
    /\ UNCHANGED <<disk, chat_data, now, nupd, dirty, prev>>

\* the commit with latest- opened and nothing written to it
CommitLatestSkipped(d, lp, code) == d

\* the diff sent inline whatever its length
DiffInlineAlways(udiff) == TRUE

\* what lp.write_text(code) leaves in latest- when it returns
CommitLatest(d, lp, code) == WriteAll(d, lp, code)

\* len(udiff) <= 3500
DiffInline(udiff) == TextLen(udiff) <= DiffLimit

\* vpath = new_version_path(...); vpath.write_text(code): the open fails and
\* nothing is written, or the file is created or truncated and the write
\* fails part-way, or the whole code is written
WriteVersion ==
    /\ cur.pc = "commit"
    /\ LET vpath == new_version_path(cur.chat, cur.filename, now)
           rec == [cur EXCEPT !.vpath = vpath]
       IN \/ /\ Failed(rec, "io")
             /\ UNCHANGED <<disk, dirty>>
          \/ /\ \E part \in Prefixes(cur.code) : disk' = WriteAll(OpenW(disk, vpath), vpath, part)
             /\ dirty' = dirty \cup {cur.lp}
             /\ Failed(rec, "io")
          \/ /\ disk' = WriteAll(OpenW(disk, vpath), vpath, cur.code)
             /\ dirty' = dirty \cup {cur.lp}
             /\ cur' = [rec EXCEPT !.pc = "vdone"]
             /\ outbox' = outbox
    /\ UNCHANGED <<chat_data, now, nupd, prev>>

\* lp.write_text(code) with the same three outcomes, then the diff, the return
\* to the handler and the handler's update of the active file
WriteLatest ==
    /\ cur.pc = "vdone"
    /\ \/ /\ Failed(cur, "io")
          /\ UNCHANGED <<disk, chat_data, dirty, prev>>
       \/ /\ \E part \in Prefixes(cur.code) : disk' = WriteAll(OpenW(disk, cur.lp), cur.lp, part)
          /\ Failed(cur, "io")
          /\ UNCHANGED <<chat_data, dirty, prev>>
       \/ /\ disk' = CommitLatest(OpenW(disk, cur.lp), cur.lp, cur.code)
          /\ dirty' = dirty \ {cur.lp}
          /\ cur' = [cur EXCEPT
                !.pc = "reply",
                !.udiff = IF Truthy(cur.base)
                          THEN Some(make_diff(cur.base[1], cur.code, ExtHint(cur.filename)))
                          ELSE None]
          /\ chat_data' = IF ~Truthy(cur.active_file)
                          THEN [chat_data EXCEPT
                                   ![cur.chat].active_file = Some(DisplayName(cur.vpath))]
                          ELSE chat_data
          /\ prev' = [prev EXCEPT ![cur.chat] =
                         IF ~Truthy(cur.active_file)
                         THEN Some([name |-> IF cur.named = None THEN <<"code", ".py">>
                                             ELSE cur.named[1],
                                    code |-> cur.code])
                         ELSE None]
          /\ outbox' = outbox
    /\ UNCHANGED <<now, nupd>>

-----------------------------------------------------------------------------
(* The replies of handle_text and handle_document.                         *)

Document == [kind |-> "document", body |-> disk[cur.vpath]]
InlineDiff == [kind |-> "inline", body |-> cur.udiff[1]]
Combo == [kind |-> "combo", body |-> ComboContent(cur.instr, disk[cur.vpath])]

\* handle_text: the file, then the diff when there is one: inline when it is
\* short, else the combined file instead
ReplyText ==
    /\ cur.pc = "reply"
    /\ cur.kind = "text"
    /\ cur' = [cur EXCEPT !.pc = "done"]
    /\ IF ~Truthy(cur.udiff)
       THEN /\ outbox' = outbox \o <<Document>>
            /\ UNCHANGED disk
       ELSE IF DiffInline(cur.udiff[1])
       THEN /\ outbox' = outbox \o <<Document, InlineDiff>>
            /\ UNCHANGED disk
       ELSE /\ disk' = WriteAll(disk, ComboPath(cur.vpath), Combo.body)
            /\ outbox' = outbox \o <<Document, Combo>>
    /\ UNCHANGED <<chat_data, now, nupd, dirty, prev>>

\* handle_document: the file, then when there is a diff: the diff inline when
\* it is short, and the combined file always
ReplyDocument ==
    /\ cur.pc = "reply"
    /\ cur.kind = "document"
    /\ cur' = [cur EXCEPT !.pc = "done"]
    /\ IF ~Truthy(cur.udiff)
       THEN /\ outbox' = outbox \o <<Document>>
            /\ UNCHANGED disk
       ELSE /\ disk' = WriteAll(disk, ComboPath(cur.vpath), Combo.body)
            /\ outbox' = outbox \o <<Document>>
                           \o (IF DiffInline(cur.udiff[1]) THEN <<InlineDiff>> ELSE <<>>)
                           \o <<Combo>>
    /\ UNCHANGED <<chat_data, now, nupd, dirty, prev>>

\* the handler returns
Finish ==
    /\ cur.pc = "done"
    /\ cur' = Idle
    /\ outbox' = <<>>
    /\ UNCHANGED <<disk, chat_data, now, nupd, dirty, prev>>

-----------------------------------------------------------------------------
(* Commands.  Their replies carry no state and are not recorded.           *)

cmd_create(c, args) ==
    /\ CanDispatch
    /\ nupd < MaxUpdates
    /\ nupd' = nupd + 1
    /\ chat_data' = IF args = <<>> \/ LineLen(args) > 100 THEN chat_data
                    ELSE [chat_data EXCEPT ![c].active_file = Some(args)]
    /\ prev' = [prev EXCEPT ![c] = None]
    /\ UNCHANGED <<disk, now, cur, outbox, dirty>>

cmd_model(c, arg) ==
    /\ CanDispatch
    /\ nupd < MaxUpdates
    /\ nupd' = nupd + 1
    /\ chat_data' = IF arg \in AVAILABLE_MODELS
                    THEN [chat_data EXCEPT ![c].model = Some(arg)]
                    ELSE chat_data
    /\ prev' = [prev EXCEPT ![c] = None]
    /\ UNCHANGED <<disk, now, cur, outbox, dirty>>

cmd_reset(c) ==
    /\ CanDispatch
    /\ nupd < MaxUpdates
    /\ nupd' = nupd + 1
    /\ chat_data' = [chat_data EXCEPT ![c] = NoSession]
    /\ prev' = [prev EXCEPT ![c] = None]
    /\ UNCHANGED <<disk, now, cur, outbox, dirty>>

-----------------------------------------------------------------------------
(* The environment.                                                        *)

\* a second passes.  The clock is read by new_version_path alone, so the
\* seconds are counted where the next read of the clock can tell them
Tick ==
    /\ cur.pc = "commit"
    /\ now < MaxTime
    /\ now' = now + 1
    /\ UNCHANGED <<disk, chat_data, cur, outbox, nupd, dirty, prev>>

\* the process is killed and started again: the files stay, chat_data and
\* the update being handled are gone
Crash ==
    /\ cur' = Idle
    /\ outbox' = <<>>
    /\ chat_data' = [c \in Chats |-> NoSession]
    /\ prev' = [c \in Chats |-> None]
    /\ UNCHANGED <<disk, now, nupd, dirty>>

Next ==
    \/ \E c \in Chats, ins \in Instructions : HandleText(c, ins)
    \/ \E c \in Chats, ins \in Instructions, is_txt \in BOOLEAN :
          HandleDocument(c, ins, is_txt)
    \/ Resolve
    \/ CallLLM
    \/ WriteVersion
    \/ WriteLatest
    \/ ReplyText
    \/ ReplyDocument
    \/ Finish
    \/ \E c \in Chats, args \in CreateArgs : cmd_create(c, args)
    \/ \E c \in Chats, arg \in ModelArgs : cmd_model(c, arg)
    \/ \E c \in Chats : cmd_reset(c)
    \/ Tick
    \/ Crash

Spec == Init /\ [][Next]_vars

-----------------------------------------------------------------------------
(* The layout of a chat's directory.                                       *)

\* latest-<filename>
IsLatestPath(p) ==
    Len(p) = 2 /\ Len(p[2]) >= 2 /\ p[2][1] = "latest" /\ p[2][2] = "-"

\* <stamp>-<filename>, the handlers' .combo.md attachments apart
IsVersionPath(p) ==
    /\ Len(p) = 2
    /\ Len(p[2]) >= 4
    /\ p[2][1] = "ymd" /\ p[2][2] = "-" /\ p[2][4] = "-"
    /\ p[2][Len(p[2])] /= ".combo.md"

VersionName(p) == SubSeq(p[2], 5, Len(p[2]))
VersionSecond(p) == CHOOSE t \in 0..MaxTime : ToString(t) = p[2][3]
LatestOf(p) == <<p[1], <<"latest", "-">> \o VersionName(p)>>

\* versions of the same (conversation, filename) pair
SamePair(p, q) == p[1] = q[1] /\ VersionName(p) = VersionName(q)

\* p is the most recently created Version of its pair
Newest(p) ==
    \A q \in DOMAIN disk :
        IsVersionPath(q) /\ SamePair(p, q) => VersionSecond(q) <= VersionSecond(p)

LatestHolds(p) == LatestOf(p) \in DOMAIN disk /\ disk[LatestOf(p)] = disk[p]

-----------------------------------------------------------------------------
(* C1 *)

\* C1, as stated: whenever no commit is between its two writes, also after a
\* generation that failed or was interrupted, Latest of every pair that has a
\* Version holds the content of the pair's most recently created Version.
C1_LatestAlwaysNewest ==
    cur.pc /= "vdone" =>
        \A p \in DOMAIN disk : IsVersionPath(p) /\ Newest(p) => LatestHolds(p)

\* C1, amended: Latest of a pair holds the content of the pair's most recently
\* created Version whenever the last commit begun on the pair has run to its
\* end; a commit that fails or is interrupted after its version write began
\* leaves Latest behind until the next commit on the pair ends.
C1_LatestNewestUnlessTorn ==
    \A p \in DOMAIN disk :
        IsVersionPath(p) /\ Newest(p) /\ LatestOf(p) \notin dirty => LatestHolds(p)

\* a pair with two Versions whose second commit has ended
C1_Witness ==
    \E p, q \in DOMAIN disk :
        /\ IsVersionPath(p) /\ IsVersionPath(q) /\ SamePair(p, q)
        /\ VersionSecond(q) < VersionSecond(p)
        /\ disk[q] /= <<>> /\ disk[q] /= disk[p]
        /\ LatestOf(p) \notin dirty
        /\ cur.pc = "idle"

-----------------------------------------------------------------------------
(* C2 *)

\* C2: a successful generation leaves its content in Latest and in a Version,
\* and every Version of an earlier successful commit (one whose artifact
\* Latest showed when the generation began) is still there, unchanged.
C2_VersionsNeverOverwritten ==
    cur.pc = "reply" =>
        /\ disk[cur.lp] = cur.code
        /\ disk[cur.vpath] = cur.code
        /\ \A p \in DOMAIN cur.disk0 :
              (/\ IsVersionPath(p)
               /\ cur.disk0[p] /= <<>>
               /\ LatestOf(p) \in DOMAIN cur.disk0
               /\ cur.disk0[LatestOf(p)] = cur.disk0[p])
              => p \in DOMAIN disk /\ disk[p] = cur.disk0[p]

-----------------------------------------------------------------------------
(* C3 *)

\* occurrences of a token in a text
Count(text, tok) ==
    Cardinality({ij \in (1..Len(text)) \X (1..8) :
                    ij[2] <= Len(text[ij[1]]) /\ text[ij[1]][ij[2]] = tok})

EditMode(composite) == Count(composite, BeginMarker) > 0

\* C3: after a generation that inferred its filename f in a chat with no
\* active filename, the next instruction of the chat without embedded code
\* targets f, has the content just committed as its base and is composed in
\* edit mode.
C3_FilenameStable ==
    (/\ cur.pc = "llm"
     /\ prev[cur.chat] /= None
     /\ cur.embedded = None
     /\ cur.read_ok)
    => /\ PathName(cur.filename) = prev[cur.chat][1].name
       /\ cur.base = Some(prev[cur.chat][1].code)
       /\ EditMode(cur.composite)

-----------------------------------------------------------------------------
(* C4 *)

\* C4: whatever changes a Latest Pointer puts the whole new content into it:
\* a reader finds the content it had or the complete new content.
C4_LatestNeverPartial ==
    [][\A p \in DOMAIN disk' :
          IsLatestPath(p) =>
              \/ p \in DOMAIN disk /\ disk'[p] = disk[p]
              \/ disk'[p] = cur.code]_vars

-----------------------------------------------------------------------------
(* C5 *)

\* the model call failed, or the artifact in its response is empty
ModelFailed == cur.called /\ (cur.resp.text = None \/ Strip(cur.resp.artifact) = <<>>)

-----------------------------------------------------------------------------
(* C6 *)

-----------------------------------------------------------------------------
(* C7 *)

\* the lines of a text that hold a token
LinesWith(text, tok) ==
    {i \in 1..Len(text) : \E j \in 1..Len(text[i]) : text[i][j] = tok}

\* one occurrence of each marker, the begin marker first, and between them
\* the fenced block of the base code and nothing else
MarkersAround(composite, language, base_code) ==
    /\ Count(composite, BeginMarker) = 1
    /\ Count(composite, EndMarker) = 1
    /\ \E b \in LinesWith(composite, BeginMarker), e \in LinesWith(composite, EndMarker) :
          /\ b < e
          /\ SubSeq(composite, b + 1, e - 1)
                = << <<Fence, language>> >> \o base_code \o << <<Fence>> >>

NoMarkers(composite) ==
    Count(composite, BeginMarker) = 0 /\ Count(composite, EndMarker) = 0

\* C7, as stated: for every input, the prompt composed without a base holds
\* neither marker, and the prompt composed with a base holds each marker
\* once, in order, around the fenced base code.
C7_Markers ==
    cur.pc = "llm" =>
        IF cur.base = None THEN NoMarkers(cur.composite)
        ELSE MarkersAround(cur.composite, cur.language, cur.base[1])

\* neither the instruction, nor the file name, nor the base holds a marker
MarkerFree ==
    /\ NoMarkers(cur.prompt)
    /\ NoMarkers(<<PathName(cur.filename)>>)
    /\ cur.base /= None => NoMarkers(cur.base[1])

\* C7, amended: for an instruction, a file name and a base code that hold no
\* marker themselves, the prompt composed with the base absent or empty holds
\* neither marker, and the prompt composed with a base that is not empty holds
\* each marker once, in order, around the fenced base code.
C7_MarkersOfCleanInput ==
    (cur.pc = "llm" /\ MarkerFree) =>
        IF ~Truthy(cur.base) THEN NoMarkers(cur.composite)
        ELSE MarkersAround(cur.composite, cur.language, cur.base[1])

\* a prompt composed in edit mode from marker-free input
C7_Witness ==
    cur.pc = "llm" /\ MarkerFree /\ Truthy(cur.base)

-----------------------------------------------------------------------------
(* C8 *)

\* C8: every file a step creates or changes lies in the directory of the
\* chat whose request is being handled, so the files of every other chat
\* stay as they are; and no file is removed.
C8_WritesStayInChatDir ==
    [][/\ \A p \in DOMAIN disk : p \in DOMAIN disk'
       /\ \A p \in DOMAIN disk' :
             (p \notin DOMAIN disk \/ disk'[p] /= disk[p]) =>
                 /\ cur.chat \in Chats
                 /\ Len(p) = 2
                 /\ p[1] = <<ToString(cur.chat)>>]_vars

\* a file name with "/" and ".." has been committed in one chat while the
\* other chat has files of its own
C8_Witness ==
    /\ cur.pc = "reply"
    /\ \E i \in 1..Len(cur.filename) : cur.filename[i] = ".."
    /\ \E p \in DOMAIN disk : p[1] /= <<ToString(cur.chat)>>

-----------------------------------------------------------------------------
(* C9 *)

\* the handler has sent all it sends for a successful generation
Delivered == cur.pc = "done" /\ cur.err = "" /\ cur.vpath /= <<>>

Sent(kind) == {i \in 1..Len(outbox) : outbox[i].kind = kind}

\* text holds the lines of part, in a row
Contains(text, part) ==
    \E k \in 0..(Len(text) - Len(part)) : SubSeq(text, k + 1, k + Len(part)) = part

\* C9, as stated: after a successful generation that had a base, the diff has
\* been sent inline when it is at or below the threshold, and in an
\* attachment that holds it when it is above; without a base no diff is sent.
C9_DiffDelivered ==
    Delivered =>
        IF cur.base /= None /\ Truthy(cur.udiff)
        THEN IF TextLen(cur.udiff[1]) <= DiffLimit
             THEN \E i \in Sent("inline") : outbox[i].body = cur.udiff[1]
             ELSE \E i \in Sent("combo") : Contains(outbox[i].body, cur.udiff[1])
        ELSE cur.base = None => Sent("inline") = {} /\ Sent("combo") = {}

\* C9, amended: after a successful generation whose base was not empty and
\* differs from the new code, the diff has been sent inline when it is at or
\* below the threshold; above the threshold no diff is sent, and the user gets
\* an attachment with the instruction and the new code instead (a document
\* instruction gets that attachment in both cases).  Without a base, with an
\* empty base or with unchanged code, the file alone is sent.
C9_DiffInlineOrCombo ==
    Delivered =>
        LET combo == [kind |-> "combo", body |-> ComboContent(cur.instr, cur.code)]
            file == [kind |-> "document", body |-> cur.code]
        IN IF Truthy(cur.base) /\ cur.base[1] /= cur.code
           THEN LET diff == [kind |-> "inline", body |-> cur.udiff[1]]
                IN /\ cur.udiff[1] /= <<>>
                   /\ \A i \in 1..Len(outbox) : ~Contains(outbox[i].body, cur.udiff[1])
                                                   \/ outbox[i] = diff
                   /\ outbox = <<file>>
                        \o (IF TextLen(cur.udiff[1]) <= DiffLimit THEN <<diff>> ELSE <<>>)
                        \o (IF TextLen(cur.udiff[1]) > DiffLimit \/ cur.kind = "document"
                            THEN <<combo>> ELSE <<>>)
           ELSE outbox = <<file>>

\* a diff above the threshold after a text instruction
C9_Witness ==
    /\ Delivered
    /\ cur.kind = "text"
    /\ Truthy(cur.udiff)
    /\ TextLen(cur.udiff[1]) > DiffLimit

-----------------------------------------------------------------------------
(* C10 *)

\* C10: from the moment a request has read its session state to the end of
\* its commit, the chat's session state is what the request read and the
\* files are what the request found, but for what the request itself wrote;
\* and the commit sets the active file only if the request found none.
C10_OneRequestAtATime ==
    /\ InFlight =>
          /\ chat_data[cur.chat] = cur.data0
          /\ cur.active_file = cur.data0.active_file
          /\ disk = IF cur.pc = "vdone" THEN WriteAll(cur.disk0, cur.vpath, cur.code)
                    ELSE cur.disk0
    /\ cur.pc = "reply" =>
          /\ chat_data[cur.chat].model = cur.data0.model
          /\ chat_data[cur.chat].active_file =
                IF cur.data0.active_file /= None THEN cur.data0.active_file
                ELSE Some(DisplayName(cur.vpath))
          /\ disk = WriteAll(WriteAll(cur.disk0, cur.vpath, cur.code), cur.lp, cur.code)

\* a request is between its two writes in a chat whose active file was set
\* by /create
C10_Witness ==
    /\ cur.pc = "vdone"
    /\ cur.data0.active_file = Some(<<"x", ".py">>)

-----------------------------------------------------------------------------
(* C11 *)

\* C11: every Latest Pointer that exists holds content that is not empty and
\* that is the content of a Version in the history of its pair, also after a
\* generation that failed or was interrupted.
C11_LatestInHistory ==
    \A p \in DOMAIN disk :
        IsLatestPath(p) =>
            /\ Strip(disk[p]) /= <<>>
            /\ \E q \in DOMAIN disk :
                  IsVersionPath(q) /\ LatestOf(q) = p /\ disk[q] = disk[p]

=============================================================================
